---- MODULE Spec2Model ----
(***************************************************************************)
(* Model of manic/externals_description.py: the externals description      *)
(* pipeline.  A canonical document (a schema version string plus one       *)
(* section per external) is passed through the factory                     *)
(* create_externals_description, the ExternalsDescriptionConfigV1          *)
(* constructor (schema gate, _parse_cfg) and the three validation phases   *)
(* _check_data, _check_optional and _validate.                             *)
(*                                                                         *)
(* Python values are records [type, s, b]; a Python dict is a function     *)
(* whose DOMAIN is its key set; the description (self) is the sequence of  *)
(* its entries in insertion order.  Strings that the code takes apart      *)
(* (the schema version) are sequences of one-character strings.            *)
(***************************************************************************)
EXTENDS Integers, Sequences, FiniteSets, TLC

VARIABLES
    pc,          \* position in the construction pipeline
    model_data,  \* the config document handed to create_externals_description
    parent_repo, \* self._parent_repo (NoParent when None)
    input_ver,   \* (_input_major, _input_minor, _input_patch) once extracted
    self,        \* the description being built: sequence of entries
    err,         \* the failure that ended construction (kind "none" if none)
    reads,       \* number of times the submodules manifest has been read
    cwd,         \* the working directory of the process (os.getcwd())
    status       \* git_submodule_status: its argument, locals and result

vars == <<pc, model_data, parent_repo, input_ver, self, err, reads, cwd, status>>

-----------------------------------------------------------------------------
(* Bounds of the model *)

\* most components (separated by the version separator) in a version string
MaxComponents == 4

-----------------------------------------------------------------------------
(* Python values and dicts *)

Str(x) == [type |-> "str", s |-> x, b |-> FALSE]
Bool(x) == [type |-> "bool", s |-> "", b |-> x]

\* truth value of a Python value used as a condition
Truthy(v) == IF v.type = "bool" THEN v.b ELSE v.s # ""

\* d[k] = v
Put(d, k, v) == [x \in (DOMAIN d) \cup {k} |-> IF x = k THEN v ELSE d[x]]

\* del d[k]
Del(d, k) == [x \in (DOMAIN d) \ {k} |-> d[x]]

EmptyDict == [x \in {} |-> Str("")]

Min(S) == CHOOSE x \in S : \A y \in S : x <= y

-----------------------------------------------------------------------------
(* Keywords and constants of the interface *)

DESCRIPTION_SECTION == "externals_description"
VERSION_ITEM == "schema_version"

EXTERNALS == "externals"
BRANCH == "branch"
SUBMODULE == "from_submodule"
HASH == "hash"
PATH == "local_path"
PROTOCOL == "protocol"
REPO == "repo"
REPO_URL == "repo_url"
REQUIRED == "required"
TAG == "tag"
SPARSE == "sparse"

PROTOCOL_EXTERNALS_ONLY == "externals_only"
PROTOCOL_GIT == "git"
PROTOCOL_SVN == "svn"
GIT_SUBMODULES_FILENAME == ".gitmodules"
KNOWN_PRROTOCOLS == {PROTOCOL_GIT, PROTOCOL_SVN, PROTOCOL_EXTERNALS_ONLY}

\* global_constants.EMPTY_STR and VERSION_SEPERATOR
EMPTY_STR == ""
VERSION_SEPERATOR == "."

\* _source_schema: the top-level keys with the type of their schema value,
\* and the keys of the nested repo dict (all strings)
SourceSchemaTop ==
    [k \in {REQUIRED, PATH, EXTERNALS, SUBMODULE} |->
        IF k \in {REQUIRED, SUBMODULE} THEN "bool" ELSE "str"]
SourceSchemaRepo == {PROTOCOL, REPO_URL, TAG, BRANCH, HASH, SPARSE}

-----------------------------------------------------------------------------
(* Failures.  fatal_error(msg) raises and ends the construction; an        *)
(* uncaught Python exception (IndexError, KeyError) ends it as well.       *)

NoFound == << >>

Failure(kind, name, detail, found) ==
    [kind |-> kind, name |-> name, detail |-> detail, found |-> found]

NoError == Failure("none", "", "", NoFound)

\* the kinds raised through fatal_error
FatalKinds ==
    {"MissingVersion", "VersionFormat", "UnsupportedMajor", "DevError",
     "IncompatibleSchema", "UnknownItem", "UnknownProtocol", "SvnHash",
     "SubmoduleProtocol", "OverSpecified", "UnderSpecified", "NoParent",
     "ParentProtocol", "NoSubmodulesFile", "SubmoduleNotFound",
     "MissingPath", "MissingUrl", "NoStatus", "NotValid", "SubprocessError"}

\* exceptions that are not raised through fatal_error
ExceptionKinds == {"IndexError", "KeyError", "ValueError"}

-----------------------------------------------------------------------------
(* Strings as character sequences: the pieces of str and re that           *)
(* get_cfg_schema_version uses                                             *)

Digits == {"0", "1", "2", "3", "4", "5", "6", "7", "8", "9"}

DigitVal(c) ==
    CASE c = "0" -> 0 [] c = "1" -> 1 [] c = "2" -> 2 [] c = "3" -> 3
      [] c = "4" -> 4 [] c = "5" -> 5 [] c = "6" -> 6 [] c = "7" -> 7
      [] c = "8" -> 8 [] OTHER -> 9

\* re.split(r"[-+]", s)[0]: the text before the first "-" or "+"
ReSplitFirst(s) ==
    LET idx == {i \in 1..Len(s) : s[i] \in {"-", "+"}}
    IN  IF idx = {} THEN s ELSE SubSeq(s, 1, Min(idx) - 1)

\* s.split(sep)
RECURSIVE StrSplit(_, _)
StrSplit(s, sep) ==
    LET idx == {i \in 1..Len(s) : s[i] = sep}
    IN  IF idx = {} THEN <<s>>
        ELSE <<SubSeq(s, 1, Min(idx) - 1)>>
             \o StrSplit(SubSeq(s, Min(idx) + 1, Len(s)), sep)

\* s.strip()
RECURSIVE StrStrip(_)
StrStrip(s) ==
    IF s = << >> THEN s
    ELSE IF s[1] = " " THEN StrStrip(Tail(s))
    ELSE IF s[Len(s)] = " " THEN StrStrip(SubSeq(s, 1, Len(s) - 1))
    ELSE s

\* int(s) raises ValueError unless s is a non-empty run of digits
IsIntLiteral(s) == Len(s) > 0 /\ \A i \in 1..Len(s) : s[i] \in Digits

RECURSIVE IntOf(_)
IntOf(s) ==
    IF s = << >> THEN 0
    ELSE 10 * IntOf(SubSeq(s, 1, Len(s) - 1)) + DigitVal(s[Len(s)])

-----------------------------------------------------------------------------
(* get_cfg_schema_version *)

\* placeholder for the version string of a document that has none
NoVersion == <<"?">>

VersionResult(kind, major, minor, patch, received) ==
    [kind |-> kind, major |-> major, minor |-> minor, patch |-> patch,
     received |-> received]

\* The three int() conversions run in order inside the try block: a
\* component that is no integer is a ValueError (caught: fatal error naming
\* version_str), a component that does not exist is an IndexError (not
\* caught).
get_cfg_schema_version(cfg) ==
    IF ~cfg.has_version
    THEN VersionResult("MissingVersion", 0, 0, 0, << >>)
    ELSE
    LET version_str == ReSplitFirst(cfg.semver_str)
        version == StrSplit(version_str, VERSION_SEPERATOR)
        Comp(i) == StrStrip(version[i])
        Bad(i) == IF i > Len(version) THEN "IndexError"
                  ELSE IF ~IsIntLiteral(Comp(i)) THEN "VersionFormat"
                  ELSE "ok"
        first == IF Bad(1) # "ok" THEN Bad(1)
                 ELSE IF Bad(2) # "ok" THEN Bad(2)
                 ELSE Bad(3)
    IN  IF first # "ok"
        THEN VersionResult(first, 0, 0, 0, version_str)
        ELSE VersionResult("ok", IntOf(Comp(1)), IntOf(Comp(2)),
                           IntOf(Comp(3)), version_str)

-----------------------------------------------------------------------------
(* _verify_schema_version *)

\* the version ExternalsDescriptionConfigV1 supports
SchemaVersionV1 == [major |-> 1, minor |-> 1, patch |-> 0]

\* mutation of the gate: a newer patch level is rejected as well
verify_schema_version_patch(schema, input) ==
    IF input.major # schema.major THEN "DevError"
    ELSE IF input.minor > schema.minor \/ input.patch > schema.patch
    THEN "IncompatibleSchema"
    ELSE "ok"

\* "ok", or the kind of the fatal error
verify_schema_version(schema, input) ==
    IF input.major # schema.major THEN "DevError"
    ELSE IF input.minor > schema.minor THEN "IncompatibleSchema"
    ELSE "ok"

-----------------------------------------------------------------------------
(* utils.str_to_bool and utils.expand_local_url.  The strings of a section *)
(* are atoms here, so lower() and strip() are given on the atoms that the  *)
(* documents of this model use.                                            *)

StrLower(x) ==
    CASE x = "True" -> "true"
      [] x = "FALSE" -> "false"
      [] x = "TAG" -> "tag"
      [] OTHER -> x

Strip(x) ==
    CASE x = " v1 " -> "v1"
      [] x = "  " -> ""
      [] OTHER -> x

\* the accepted spellings, after lower-casing
BoolTrue == {"true", "yes", "1"}
BoolFalse == {"false", "no", "0"}

IsBoolStr(x) == StrLower(x) \in BoolTrue \cup BoolFalse
str_to_bool(x) == StrLower(x) \in BoolTrue

\* a locally-relative URL is resolved to an absolute one, others are kept
expand_local_url(url, name) ==
    IF url = "../local" THEN "/abs/local" ELSE url

-----------------------------------------------------------------------------
(* ExternalsDescriptionConfigV1._parse_cfg *)

Entry(name, top, repo) == [name |-> name, top |-> top, repo |-> repo]

\* list_to_dict: keys stripped and lower-cased, values stripped
list_to_dict(items) ==
    LET keys == {StrLower(Strip(items[i][1])) : i \in 1..Len(items)}
        Last(k) == CHOOSE i \in 1..Len(items) :
                      /\ StrLower(Strip(items[i][1])) = k
                      /\ \A j \in (i+1)..Len(items) :
                            StrLower(Strip(items[j][1])) # k
    IN  [k \in keys |-> Str(Strip(items[Last(k)][2]))]

\* loop_keys, in the insertion order of the dict
RECURSIVE LoopKeys(_)
LoopKeys(items) ==
    IF items = << >> THEN << >>
    ELSE LET rest == LoopKeys(SubSeq(items, 1, Len(items) - 1))
             k == StrLower(Strip(items[Len(items)][1]))
         IN  IF \E i \in 1..Len(rest) : rest[i] = k THEN rest
             ELSE Append(rest, k)

\* the loop over loop_keys of one section: [err, entry]
RECURSIVE ParseItems(_, _)
ParseItems(keys, e) ==
    IF keys = << >> THEN [err |-> NoError, entry |-> e]
    ELSE
    LET item == Head(keys)
    IN  IF item \in DOMAIN SourceSchemaTop
        THEN IF SourceSchemaTop[item] = "bool"
             THEN IF ~IsBoolStr(e.top[item].s)
                  THEN [err |-> Failure("ValueError", e.name, item, NoFound),
                        entry |-> e]
                  ELSE ParseItems(Tail(keys),
                         Entry(e.name,
                               Put(e.top, item, Bool(str_to_bool(e.top[item].s))),
                               e.repo))
             ELSE ParseItems(Tail(keys), e)
        ELSE IF item \in SourceSchemaRepo
        THEN ParseItems(Tail(keys),
               Entry(e.name, Del(e.top, item), Put(e.repo, item, e.top[item])))
        ELSE [err |-> Failure("UnknownItem", e.name, item, NoFound),
              entry |-> e]

\* self[name][self.REPO] = {} replaces whatever the section gave under the
\* key repo; in the loop the key repo is in _source_schema and its schema
\* value is no bool, so nothing is done for it
ParseSection(section) ==
    ParseItems(SelectSeq(LoopKeys(section.items), LAMBDA k : k # REPO),
               Entry(Strip(section.name), Del(list_to_dict(section.items), REPO),
                     EmptyDict))

\* a section is skipped when a components list is given and does not name
\* it, or an exclude list is given and names it (an empty list is falsy)
Filtered(name, components, exclude) ==
    \/ (components # {} /\ name \notin components)
    \/ (exclude # {} /\ name \in exclude)

\* self[name] = {...}: a new key is appended, an existing one is replaced
SetEntry(desc, e) ==
    IF \E i \in 1..Len(desc) : desc[i].name = e.name
    THEN [i \in 1..Len(desc) |-> IF desc[i].name = e.name THEN e ELSE desc[i]]
    ELSE Append(desc, e)

\* [err, desc]
RECURSIVE ParseSections(_, _, _, _)
ParseSections(sections, components, exclude, desc) ==
    IF sections = << >> THEN [err |-> NoError, desc |-> desc]
    ELSE
    LET section == Head(sections)
        name == Strip(section.name)
    IN  IF Filtered(name, components, exclude)
        THEN ParseSections(Tail(sections), components, exclude, desc)
        ELSE LET r == ParseSection(section)
             IN  IF r.err.kind # "none"
                 THEN [err |-> r.err, desc |-> SetEntry(desc, r.entry)]
                 ELSE ParseSections(Tail(sections), components, exclude,
                                    SetEntry(desc, r.entry))

parse_cfg(cfg_data) ==
    ParseSections(cfg_data.sections, cfg_data.components, cfg_data.exclude,
                  << >>)

-----------------------------------------------------------------------------
(* ExternalsDescription._check_data *)

\* found_refs is built as text; it is kept here as the sequence of its
\* pieces.  Only the tag line interpolates the value and the previous text:
\* the second literal of the branch, hash and from_submodule lines is not
\* a format string, so its braces are copied as they stand and the text
\* found so far is dropped.
FoundTag(e, found_refs) ==
    <<"\"tag = \"", e.repo[TAG].s, "\", ">> \o found_refs
FoundBranch(e, found_refs) ==
    <<"\"branch = ", "{self[ext_name][self.REPO][self.BRANCH]}\", {found_refs}">>
FoundHash(e, found_refs) ==
    <<"\"hash = ", "{self[ext_name][self.REPO][self.HASH]}\", {found_refs}">>
FoundSubmodule(e, found_refs) ==
    <<"\"from_submodule = ", "{self[ext_name][self.SUBMODULE]}\", {found_refs}">>

HasTag(e) == TAG \in DOMAIN e.repo
HasBranch(e) == BRANCH \in DOMAIN e.repo
HasHash(e) == HASH \in DOMAIN e.repo
HasUrl(e) == REPO_URL \in DOMAIN e.repo
HasPath(e) == PATH \in DOMAIN e.top
HasSubmodule(e) == SUBMODULE \in DOMAIN e.top
\* SUBMODULE in self[ext_name] and self[ext_name][SUBMODULE]
SubmoduleTrue(e) == HasSubmodule(e) /\ Truthy(e.top[SUBMODULE])

RefCount(e) ==
    (IF HasTag(e) THEN 1 ELSE 0) + (IF HasBranch(e) THEN 1 ELSE 0)
    + (IF HasHash(e) THEN 1 ELSE 0) + (IF SubmoduleTrue(e) THEN 1 ELSE 0)

FoundRefs(e) ==
    LET f1 == IF HasTag(e) THEN FoundTag(e, NoFound) ELSE NoFound
        f2 == IF HasBranch(e) THEN FoundBranch(e, f1) ELSE f1
        f3 == IF HasHash(e) THEN FoundHash(e, f2) ELSE f2
    IN  IF SubmoduleTrue(e) THEN FoundSubmodule(e, f3) ELSE f3

\* mutation of the reference count rule: two references are let through
CheckRefCountOffByOne(e) ==
    IF RefCount(e) > 2
    THEN Failure("OverSpecified", e.name,
                 IF HasSubmodule(e) THEN "from_submodule" ELSE "refs",
                 FoundRefs(e))
    ELSE IF RefCount(e) < 1
    THEN Failure("UnderSpecified", e.name, "refs", NoFound)
    ELSE NoError

\* the reference count rule: the failure, or NoError
CheckRefCount(e) ==
    IF RefCount(e) > 1
    THEN Failure("OverSpecified", e.name,
                 IF HasSubmodule(e) THEN "from_submodule" ELSE "refs",
                 FoundRefs(e))
    ELSE IF RefCount(e) < 1
    THEN Failure("UnderSpecified", e.name, "refs", NoFound)
    ELSE NoError

\* mutation of the repo_url and local_path rules: local_path is not looked at
CheckUrlOnly(e) ==
    IF ~HasUrl(e) /\ (~HasSubmodule(e) \/ ~Truthy(e.top[SUBMODULE]))
    THEN Failure("UnderSpecified", e.name, REPO_URL, NoFound)
    ELSE IF SubmoduleTrue(e) /\ HasUrl(e)
    THEN Failure("OverSpecified", e.name, REPO_URL, NoFound)
    ELSE NoError

\* the repo_url and local_path rules: the failure, or NoError
CheckUrlPath(e) ==
    IF ~HasUrl(e) /\ (~HasSubmodule(e) \/ ~Truthy(e.top[SUBMODULE]))
    THEN Failure("UnderSpecified", e.name, REPO_URL, NoFound)
    ELSE IF SubmoduleTrue(e) /\ HasUrl(e)
    THEN Failure("OverSpecified", e.name, REPO_URL, NoFound)
    ELSE IF SubmoduleTrue(e) /\ HasPath(e)
    THEN Failure("OverSpecified", e.name, PATH, NoFound)
    ELSE NoError

\* the url stored back after expand_local_url
ExpandUrl(e) ==
    IF HasUrl(e)
    THEN Entry(e.name, e.top,
               Put(e.repo, REPO_URL,
                   Str(expand_local_url(e.repo[REPO_URL].s, e.name))))
    ELSE e

\* protocol is svn and the hash key is in the repo dict (a mutation tests
\* the value instead of the key)
SvnWithHashValue(e) ==
    e.repo[PROTOCOL].s = PROTOCOL_SVN /\ HasHash(e) /\ e.repo[HASH].s # ""
SvnWithHash(e) == e.repo[PROTOCOL].s = PROTOCOL_SVN /\ HasHash(e)

\* protocol is not git and the from_submodule key is in the entry
SubmoduleNotGit(e) == e.repo[PROTOCOL].s # PROTOCOL_GIT /\ HasSubmodule(e)

\* one pass of the loop body of _check_data: [err, entry]
CheckDataEntry(e) ==
    IF PROTOCOL \notin DOMAIN e.repo
    THEN [err |-> Failure("KeyError", e.name, PROTOCOL, NoFound), entry |-> e]
    ELSE
    LET protocol == e.repo[PROTOCOL].s
        rc == CheckRefCount(e)
        up == CheckUrlPath(e)
    IN  IF protocol \notin KNOWN_PRROTOCOLS
        THEN [err |-> Failure("UnknownProtocol", e.name, protocol, NoFound),
              entry |-> e]
        ELSE IF SvnWithHash(e)
        THEN [err |-> Failure("SvnHash", e.name, HASH, NoFound), entry |-> e]
        ELSE IF SubmoduleNotGit(e)
        THEN [err |-> Failure("SubmoduleProtocol", e.name, protocol, NoFound),
              entry |-> e]
        ELSE IF protocol = PROTOCOL_EXTERNALS_ONLY
        THEN [err |-> NoError, entry |-> e]
        ELSE IF rc.kind # "none" THEN [err |-> rc, entry |-> e]
        ELSE IF up.kind # "none" THEN [err |-> up, entry |-> e]
        ELSE [err |-> NoError, entry |-> ExpandUrl(e)]

\* the loop over the entries, from entry i on: [err, desc]
RECURSIVE CheckDataFrom(_, _)
CheckDataFrom(desc, i) ==
    IF i > Len(desc) THEN [err |-> NoError, desc |-> desc]
    ELSE LET r == CheckDataEntry(desc[i])
         IN  IF r.err.kind # "none" THEN [err |-> r.err, desc |-> desc]
             ELSE CheckDataFrom([desc EXCEPT ![i] = r.entry], i + 1)

check_data(desc) == CheckDataFrom(desc, 1)

-----------------------------------------------------------------------------
(* read_gitmodules_file.  A manifest section is kept as the first nine     *)
(* characters of its header (prefix) and the rest stripped of blanks and   *)
(* quotes (name); submods is the result of git_submodule_status.           *)

Config(has_version, semver_str, sections, components, exclude) ==
    [has_version |-> has_version, semver_str |-> semver_str,
     sections |-> sections, components |-> components, exclude |-> exclude]

Section(name, items) == [name |-> name, items |-> items]

\* parse_submodules_desc_section: the last path and url items, or absent
SubmodulePath(items) ==
    LET idx == {i \in 1..Len(items) : Strip(items[i][1]) = "path"}
    IN  IF idx = {} THEN [given |-> FALSE, s |-> ""]
        ELSE [given |-> TRUE,
              s |-> Strip(items[CHOOSE i \in idx : \A j \in idx : j <= i][2])]

SubmoduleUrl(items) ==
    LET idx == {i \in 1..Len(items) : Strip(items[i][1]) = "url"}
    IN  IF idx = {} THEN [given |-> FALSE, s |-> ""]
        ELSE [given |-> TRUE,
              s |-> Strip(items[CHOOSE i \in idx : \A j \in idx : j <= i][2])]

SchemaVersionGitmodules == <<"1", ".", "0", ".", "0">>

\* the body of the loop for one submodule section whose path and url have
\* been parsed: the failure, or the section synthesized for it
SubmoduleSection(sec_name, path, url, submods) ==
    IF ~path.given
    THEN [err |-> Failure("MissingPath", sec_name, "path", NoFound),
          out |-> << >>]
    ELSE IF ~url.given
    THEN [err |-> Failure("MissingUrl", sec_name, "url", NoFound),
          out |-> << >>]
    ELSE IF sec_name \notin DOMAIN submods /\ path.s \notin DOMAIN submods
    THEN [err |-> Failure("NoStatus", path.s, "", NoFound), out |-> << >>]
    ELSE [err |-> NoError,
          out |-> << Section(sec_name,
                     << <<PATH, path.s>>, <<PROTOCOL, "git">>,
                        <<REPO_URL, url.s>>, <<REQUIRED, "True">>,
                        <<HASH, submods[IF sec_name \in DOMAIN submods
                                        THEN sec_name ELSE path.s].hash>> >>) >>]

\* one section of the manifest: only "submodule" sections are converted
GitmodulesSection(section, submods) ==
    IF section.prefix # "submodule" THEN [err |-> NoError, out |-> << >>]
    ELSE SubmoduleSection(section.name, SubmodulePath(section.items),
                          SubmoduleUrl(section.items), submods)

\* the loop over the sections of the manifest: [err, sections]
RECURSIVE GitmodulesSections(_, _, _)
GitmodulesNext(manifest, submods, out, r) ==
    IF r.err.kind # "none" THEN [err |-> r.err, sections |-> out]
    ELSE GitmodulesSections(Tail(manifest), submods, out \o r.out)

GitmodulesSections(manifest, submods, out) ==
    IF manifest = << >> THEN [err |-> NoError, sections |-> out]
    ELSE GitmodulesNext(manifest, submods, out,
                        GitmodulesSection(Head(manifest), submods))

\* [err, doc]
GitmodulesDoc(r) ==
    [err |-> r.err,
     doc |-> Config(TRUE, SchemaVersionGitmodules, r.sections, {}, {})]

read_gitmodules_file(manifest, submods) ==
    GitmodulesDoc(GitmodulesSections(manifest, submods, << >>))

-----------------------------------------------------------------------------
(* ExternalsDescription._check_optional and _repo_config_from_submodule *)

\* result of a construction: the failure (or none), the description and
\* the number of manifest reads it made
Built(e, desc, n) == [err |-> e, desc |-> desc, reads |-> n]

RECURSIVE create_externals_description(_, _)

\* the parent repository object: what protocol(), name() and
\* submodules_file() return, the sections of its submodules manifest and
\* the result of git_submodule_status in its directory
ParentRepo(protocol, has_file, gitmodules, submods) ==
    [none |-> FALSE, name |-> "parent", protocol |-> protocol,
     has_submodules_file |-> has_file, gitmodules |-> gitmodules,
     submods |-> submods]

\* parent_repo=None
NoParentRepo ==
    [none |-> TRUE, name |-> "", protocol |-> "", has_submodules_file |-> FALSE,
     gitmodules |-> << >>, submods |-> [x \in {} |-> [hash |-> ""]]]

\* submod_desc = None
NoSubmodDesc == [loaded |-> FALSE, desc |-> << >>]

\* the defaults added for the conditionally optional fields
SetDefault(d, keys) ==
    [k \in (DOMAIN d) \cup keys |->
        IF k \in DOMAIN d THEN d[k] ELSE Str(EMPTY_STR)]

FillOptional(e) ==
    Entry(e.name, SetDefault(e.top, {EXTERNALS}),
          SetDefault(e.repo, {TAG, BRANCH, HASH, REPO_URL, SPARSE}))

Loaded(e, submod_desc, n) ==
    [err |-> e, submod_desc |-> submod_desc, reads |-> n]

\* submod_desc = create_externals_description(submod_file)
SubmodDescOf(built) ==
    IF built.err.kind # "none" THEN Loaded(built.err, NoSubmodDesc, 1)
    ELSE Loaded(NoError, [loaded |-> TRUE, desc |-> built.desc], 1)

\* submod_file = read_gitmodules_file(repo_path, submod_file)
SubmodDescFrom(file) ==
    IF file.err.kind # "none" THEN Loaded(file.err, NoSubmodDesc, 1)
    ELSE SubmodDescOf(create_externals_description(file.doc, NoParentRepo))

\* mutation of the loading: the description at hand is not looked at, the
\* manifest is read for every entry
LoadSubmodDescAlways(parent, submod_desc) ==
    IF ~parent.has_submodules_file
    THEN Loaded(Failure("NoSubmodulesFile", parent.name, "", NoFound),
                submod_desc, 0)
    ELSE SubmodDescFrom(read_gitmodules_file(parent.gitmodules,
                                             parent.submods))

\* the description of the parent's submodules, built on first use:
\* [err, submod_desc, reads]
LoadSubmodDesc(parent, submod_desc) ==
    IF submod_desc.loaded THEN Loaded(NoError, submod_desc, 0)
    ELSE IF ~parent.has_submodules_file
    THEN Loaded(Failure("NoSubmodulesFile", parent.name, "", NoFound),
                submod_desc, 0)
    ELSE SubmodDescFrom(read_gitmodules_file(parent.gitmodules,
                                             parent.submods))

\* mutation of the search: the first entry is taken, whatever its name
FindFirstSubmodule(field, desc) == IF desc = << >> THEN 0 ELSE 1

\* the search for the external in the submodules description: the index of
\* the first entry with that name, 0 if there is none
FindSubmodule(field, desc) ==
    IF \E i \in 1..Len(desc) : desc[i].name = field
    THEN Min({i \in 1..Len(desc) : desc[i].name = field})
    ELSE 0

\* the fields copied from the entry found
FillFromSubmodule(e, ext) ==
    Entry(e.name, Put(e.top, PATH, ext.top[PATH]),
          Put(Put(e.repo, REPO_URL, ext.repo[REPO_URL]),
              HASH, ext.repo[HASH]))

Checked(x, entry, submod_desc, n) ==
    [err |-> x, entry |-> entry, submod_desc |-> submod_desc, reads |-> n]

\* the entry once the submodules description is at hand
ResolveAt(e, ld, at) ==
    IF at = 0
    THEN Checked(Failure("SubmoduleNotFound", e.name, "", NoFound), e,
                 ld.submod_desc, ld.reads)
    ELSE Checked(NoError, FillFromSubmodule(e, ld.submod_desc.desc[at]),
                 ld.submod_desc, ld.reads)

Resolve(e, ld) ==
    IF ld.err.kind # "none" THEN Checked(ld.err, e, ld.submod_desc, ld.reads)
    ELSE ResolveAt(e, ld, FindSubmodule(e.name, ld.submod_desc.desc))

\* mutation of the from_submodule part: the protocol of the parent is not
\* looked at
CheckSubmoduleAnyParent(e, parent, submod_desc) ==
    IF ~HasSubmodule(e)
    THEN Checked(NoError,
                 Entry(e.name, Put(e.top, SUBMODULE, Bool(FALSE)), e.repo),
                 submod_desc, 0)
    ELSE IF parent.none
    THEN Checked(Failure("NoParent", e.name, "", NoFound), e, submod_desc, 0)
    ELSE Resolve(e, LoadSubmodDesc(parent, submod_desc))

\* the from_submodule part of the loop body, the defaults being filled
CheckSubmodule(e, parent, submod_desc) ==
    IF ~HasSubmodule(e)
    THEN Checked(NoError,
                 Entry(e.name, Put(e.top, SUBMODULE, Bool(FALSE)), e.repo),
                 submod_desc, 0)
    ELSE IF parent.none
    THEN Checked(Failure("NoParent", e.name, "", NoFound), e, submod_desc, 0)
    ELSE IF parent.protocol # PROTOCOL_GIT
    THEN Checked(Failure("ParentProtocol", e.name, parent.protocol, NoFound),
                 e, submod_desc, 0)
    ELSE Resolve(e, LoadSubmodDesc(parent, submod_desc))

\* one pass of the loop body: [err, entry, submod_desc, reads]
CheckOptionalEntry(e, parent, submod_desc) ==
    CheckSubmodule(FillOptional(e), parent, submod_desc)

\* the loop over the entries, from entry i on
RECURSIVE CheckOptionalFrom(_, _, _, _, _)
CheckOptionalNext(desc, parent, i, n, r) ==
    IF r.err.kind # "none"
    THEN Built(r.err, [desc EXCEPT ![i] = r.entry], n + r.reads)
    ELSE CheckOptionalFrom([desc EXCEPT ![i] = r.entry], parent, i + 1,
                           r.submod_desc, n + r.reads)

CheckOptionalFrom(desc, parent, i, submod_desc, n) ==
    IF i > Len(desc) THEN Built(NoError, desc, n)
    ELSE CheckOptionalNext(desc, parent, i, n,
                           CheckOptionalEntry(desc[i], parent, submod_desc))

check_optional(desc, parent) ==
    CheckOptionalFrom(desc, parent, 1, NoSubmodDesc, 0)

-----------------------------------------------------------------------------
(* ExternalsDescription._validate *)

\* validate_data_struct(_source_schema, entry): every key of the schema is
\* in the data and its value has the type of the schema's value
validate_data_struct(e) ==
    /\ \A k \in DOMAIN SourceSchemaTop :
          k \in DOMAIN e.top /\ e.top[k].type = SourceSchemaTop[k]
    /\ \A k \in SourceSchemaRepo :
          k \in DOMAIN e.repo /\ e.repo[k].type = "str"

\* the failure for the first entry that does not validate, or NoError
validate(desc) ==
    IF \A i \in 1..Len(desc) : validate_data_struct(desc[i]) THEN NoError
    ELSE Failure("NotValid",
                 desc[Min({i \in 1..Len(desc) :
                             ~validate_data_struct(desc[i])})].name,
                 "", NoFound)

-----------------------------------------------------------------------------
(* create_externals_description (model_format "cfg") and the constructor   *)
(* of ExternalsDescriptionConfigV1                                         *)

\* _check_user_input: _check_data, then _check_optional, then _validate
Validated(b) ==
    IF b.err.kind # "none" THEN b
    ELSE Built(validate(b.desc), b.desc, b.reads)

OptionalChecked(a, parent) ==
    IF a.err.kind # "none" THEN Built(a.err, a.desc, 0)
    ELSE Validated(check_optional(a.desc, parent))

check_user_input(desc, parent) == OptionalChecked(check_data(desc), parent)

\* ExternalsDescriptionConfigV1.__init__
Parsed(p, parent) ==
    IF p.err.kind # "none" THEN Built(p.err, p.desc, 0)
    ELSE check_user_input(p.desc, parent)

Gated(cfg, parent, v, gate) ==
    IF v.kind # "ok" THEN Built(Failure(v.kind, "", "", v.received), << >>, 0)
    ELSE IF gate # "ok" THEN Built(Failure(gate, "", "", v.received), << >>, 0)
    ELSE Parsed(parse_cfg(cfg), parent)

VerifyVersion(cfg, parent, v) ==
    Gated(cfg, parent, v, verify_schema_version(SchemaVersionV1, v))

ConfigV1(cfg, parent) ==
    VerifyVersion(cfg, parent, get_cfg_schema_version(cfg))

Dispatch(cfg, parent, v) ==
    IF v.kind # "ok" THEN Built(Failure(v.kind, "", "", v.received), << >>, 0)
    ELSE IF v.major = 1 THEN ConfigV1(cfg, parent)
    ELSE Built(Failure("UnsupportedMajor", "", "", v.received), << >>, 0)

create_externals_description(cfg, parent) ==
    Dispatch(cfg, parent, get_cfg_schema_version(cfg))

-----------------------------------------------------------------------------
(* The documents and parent repositories the model is run on *)

Absent == "<absent>"

\* the items of a section, in the order written, from the value chosen for
\* each key (Absent: the key is not written)
Items(pairs) == SelectSeq(pairs, LAMBDA p : p[2] # Absent)

RawSection(name, proto, url, tag, branch, hash, submod, path, req) ==
    Section(name,
            Items(<< <<PROTOCOL, proto>>, <<REPO_URL, url>>,
                     <<TAG, tag>>, <<BRANCH, branch>>, <<HASH, hash>>,
                     <<SUBMODULE, submod>>, <<PATH, path>>,
                     <<REQUIRED, req>> >>))

\* every combination of the keys of one section
AllSections ==
    { RawSection("a", protocol, repo_url, tag, branch, hash, from_submodule,
                 local_path, required) :
        protocol \in {Absent, "git", "svn", "externals_only", "hg"},
        repo_url \in {Absent, "https://x/lib.git", "../local"},
        tag \in {Absent, "", "v1"},
        branch \in {Absent, "", "main"},
        hash \in {Absent, "", "abc123"},
        from_submodule \in {Absent, "True", "false", "maybe"},
        local_path \in {Absent, "src/lib"},
        required \in {Absent, "True"} }

\* sections of the usual shapes, for documents of several sections
Templates(name) ==
    << RawSection(name, "git", "https://x/lib.git", "v1", Absent, Absent,
                  Absent, "src/lib", "True"),
       RawSection(name, "git", Absent, Absent, Absent, Absent,
                  "True", Absent, "True"),
       RawSection(name, "git", "https://x/lib.git", "v1", Absent, Absent,
                  "false", "src/lib", "True"),
       RawSection(name, "svn", "https://x/lib.git", Absent, Absent, "abc123",
                  Absent, "src/lib", "True"),
       RawSection(name, "git", "../local", "v1", "main", Absent,
                  Absent, "src/lib", "True"),
       RawSection(name, "externals_only", Absent, Absent, Absent, Absent,
                  Absent, "src/lib", "True"),
       Section(name, << <<PROTOCOL, "git">>, <<REPO_URL, "https://x/lib.git">>,
                        <<"TAG", " v1 ">>, <<PATH, "src/lib">>,
                        <<REQUIRED, "True">>, <<EXTERNALS, "sub.cfg">> >>),
       Section(name, << <<PROTOCOL, "git">>, <<REPO_URL, "https://x/lib.git">>,
                        <<BRANCH, "main">>, <<PATH, "src/lib">>,
                        <<REQUIRED, "FALSE">>, <<"bogus", "1">> >>) >>

\* most sections in a document of several sections
MaxEntries == 2

Names == <<"a", "b", "c">>

\* the name of section i when the first section takes the name at `first`
NameAt(i, first) == Names[((first + i - 2) % Len(Names)) + 1]

SectionLists ==
    UNION { { [i \in 1..n |-> Templates(NameAt(i, first))[f[i]]] :
                f \in [1..n -> 1..Len(Templates("a"))] } :
            n \in 0..MaxEntries, first \in 1..Len(Names) }

\* components and exclude lists (empty: not given)
Filters == { <<{"a"}, {}>>, <<{}, {"a"}>> }

GoodVersion == <<"1", ".", "0", ".", "0">>

\* the submodules manifest of the parent: section a has a status record
\* under its name, section b under its path
ManifestA ==
    [prefix |-> "submodule", name |-> "a",
     items |-> << <<"path", "src/a">>, <<"url", "https://x/a.git">>,
                  <<"branch", "main">>, <<"update", "rebase">> >>]
ManifestB ==
    [prefix |-> "submodule", name |-> "b",
     items |-> << <<"path", "src/b">>, <<"url", "../local">> >>]
ManifestNoPath ==
    [prefix |-> "submodule", name |-> "a",
     items |-> << <<"url", "https://x/a.git">> >>]
ManifestNoUrl ==
    [prefix |-> "submodule", name |-> "a",
     items |-> << <<"path", "src/a">> >>]
ManifestOther ==
    [prefix |-> "core", name |-> "",
     items |-> << <<"path", "src/a">> >>]

StatusAB ==
    [x \in {"a", "src/b"} |->
        [hash |-> IF x = "a" THEN "abc123" ELSE "def456"]]
StatusB == [x \in {"src/b"} |-> [hash |-> "def456"]]

ParentRepos ==
    { NoParentRepo,
      ParentRepo("svn", TRUE, <<ManifestA, ManifestB>>, StatusAB),
      ParentRepo("git", FALSE, << >>, StatusAB),
      ParentRepo("git", TRUE, <<ManifestA, ManifestB>>, StatusAB),
      ParentRepo("git", TRUE, <<ManifestOther, ManifestB, ManifestA>>, StatusAB),
      ParentRepo("git", TRUE, <<ManifestB>>, StatusAB),
      ParentRepo("git", TRUE, <<ManifestNoPath, ManifestB>>, StatusAB),
      ParentRepo("git", TRUE, <<ManifestB, ManifestNoUrl>>, StatusAB),
      ParentRepo("git", TRUE, <<ManifestA, ManifestB>>, StatusB) }

\* the parents used with every combination of keys of one section
MainParents ==
    { NoParentRepo,
      ParentRepo("git", TRUE, <<ManifestA, ManifestB>>, StatusAB) }

\* version strings: up to MaxComponents components joined by the
\* separator, then build or pre-release metadata
Components == { <<"0">>, <<"1">>, <<"2">>, <<"5">>, <<"x">>, << >> }
Suffixes == { << >>, <<"-", "r", "c">>, <<"+", "b", ".", "1">> }

RECURSIVE JoinVersion(_)
JoinVersion(cs) ==
    IF Len(cs) = 1 THEN cs[1]
    ELSE cs[1] \o <<VERSION_SEPERATOR>> \o JoinVersion(Tail(cs))

VersionStrings ==
    UNION { { JoinVersion(cs) \o suf : cs \in [1..n -> Components],
                                       suf \in Suffixes } :
            n \in 1..MaxComponents }

\* model_format "dict": the data is a native dict of entries, given here as
\* the sequence of its entries, with the components and exclude lists
DictData(origin, entries, components, exclude) ==
    [origin |-> origin, entries |-> entries, components |-> components,
     exclude |-> exclude]

\* a key that is not given
NoValue == [type |-> "absent", s |-> "", b |-> FALSE]

\* the dict of the pairs whose value is given
DictOf(pairs) ==
    [k \in {pairs[i][1] : i \in {j \in 1..Len(pairs) : pairs[j][2] # NoValue}}
        |-> pairs[CHOOSE i \in 1..Len(pairs) : pairs[i][1] = k][2]]

\* the top-level dicts and the repo dicts of the entries written by a caller
DictTops ==
    { DictOf(<< <<REQUIRED, required>>, <<PATH, local_path>>,
                <<EXTERNALS, externals>>, <<SUBMODULE, from_submodule>>,
                <<"extra", extra>> >>) :
        required \in {NoValue, Bool(TRUE), Str("True")},
        local_path \in {NoValue, Str("src/lib")},
        externals \in {NoValue, Str("sub.cfg")},
        from_submodule \in {NoValue, Bool(FALSE)},
        extra \in {NoValue, Str("x")} }

DictRepos ==
    { DictOf(<< <<PROTOCOL, Str(protocol)>>, <<REPO_URL, repo_url>>,
                <<TAG, tag>>, <<SPARSE, sparse>>, <<"depth", depth>> >>) :
        protocol \in {"git", "externals_only"},
        repo_url \in {NoValue, Str("https://x/lib.git")},
        tag \in {NoValue, Str("v1"), Bool(TRUE)},
        sparse \in {NoValue, Str("sparse.txt")},
        depth \in {NoValue, Str("1")} }

\* the entry maps of the descriptions built from the documents of several
\* sections
ValidatedDescs ==
    { b.desc : b \in { r \in { create_externals_description(
                                    Config(TRUE, GoodVersion, secs, {}, {}), p) :
                                  secs \in SectionLists, p \in ParentRepos } :
                        r.err.kind = "none" } }

-----------------------------------------------------------------------------
(* The construction as a state machine: one action per function *)

TypeOK ==
    /\ pc \in {"create", "init_v1", "init_dict", "parse_cfg", "check_data",
               "check_optional", "validate", "done", "failed",
               "status_enter", "status_run", "status_parse", "status_done"}
    /\ err.kind \in {"none"} \cup FatalKinds \cup ExceptionKinds
    /\ reads \in Nat

NoInput == [major |-> 0, minor |-> 0, patch |-> 0]

\* the working directory the process starts in
WorkDir == "/work"

\* git_submodule_status has not been called
NoStatusCall ==
    [repo_dir |-> "", fails |-> FALSE, git_output |-> << >>, entry_cwd |-> "",
     submods |-> << >>, submodules |-> << >>]

Start ==
    /\ pc = "create"
    /\ input_ver = NoInput
    /\ self = << >>
    /\ err = NoError
    /\ reads = 0
    /\ cwd = WorkDir
    /\ status = NoStatusCall

\* one section, every combination of its keys
InitOneSection ==
    /\ Start
    /\ model_data \in { Config(TRUE, GoodVersion, <<sec>>, {}, {}) :
                          sec \in AllSections }
    /\ parent_repo \in MainParents

\* several sections, every parent
InitSections ==
    /\ Start
    /\ model_data \in { Config(TRUE, GoodVersion, secs, {}, {}) :
                          secs \in SectionLists }
    /\ parent_repo \in ParentRepos

\* several sections with a components or an exclude list
InitFiltered ==
    /\ Start
    /\ model_data \in { Config(TRUE, GoodVersion, secs, f[1], f[2]) :
                          secs \in SectionLists, f \in Filters }
    /\ parent_repo \in MainParents

\* every version string, or none
InitVersions ==
    /\ Start
    /\ model_data \in
          { Config(TRUE, v, <<Templates("a")[1]>>, {}, {}) :
              v \in VersionStrings }
          \cup { Config(FALSE, NoVersion, <<Templates("a")[1]>>, {}, {}) }
    /\ parent_repo = NoParentRepo

\* one section with one more key, written first or last
ExtraKeys ==
    { <<"repo", "x">>, <<"bogus", "1">>, <<"Externals", "sub.cfg">>,
      <<SPARSE, "sparse.txt">> }

InitExtraKeys ==
    /\ Start
    /\ model_data \in
          { Config(TRUE, GoodVersion, <<Section("a", its)>>, {}, {}) :
              its \in UNION { { <<k>> \o Templates("a")[1].items,
                                Templates("a")[1].items \o <<k>> } :
                              k \in ExtraKeys } }
    /\ parent_repo \in MainParents

Init ==
    \/ InitOneSection
    \/ InitSections
    \/ InitFiltered
    \/ InitVersions
    \/ InitExtraKeys

Fail(e) ==
    /\ pc' = "failed"
    /\ err' = e

\* create_externals_description: the dispatch on the major version
CreateExternalsDescription ==
    /\ pc = "create"
    /\ LET v == get_cfg_schema_version(model_data)
       IN  IF v.kind # "ok" THEN Fail(Failure(v.kind, "", "", v.received))
           ELSE IF v.major = 1 THEN pc' = "init_v1" /\ err' = err
           ELSE Fail(Failure("UnsupportedMajor", "", "", v.received))
    /\ UNCHANGED <<model_data, parent_repo, input_ver, self, reads, cwd, status>>

\* ExternalsDescriptionConfigV1.__init__ up to _remove_metadata
ConfigV1Init ==
    /\ pc = "init_v1"
    /\ LET v == get_cfg_schema_version(model_data)
           gate == verify_schema_version(SchemaVersionV1, v)
       IN  IF v.kind # "ok"
           THEN Fail(Failure(v.kind, "", "", v.received))
                /\ UNCHANGED <<input_ver, model_data>>
           ELSE /\ input_ver' = [major |-> v.major, minor |-> v.minor,
                                 patch |-> v.patch]
                /\ IF gate # "ok"
                   THEN Fail(Failure(gate, "", "", v.received))
                        /\ UNCHANGED model_data
                   ELSE /\ pc' = "parse_cfg"
                        /\ err' = err
                        /\ model_data' = [model_data EXCEPT !.has_version = FALSE]
    /\ UNCHANGED <<parent_repo, self, reads, cwd, status>>

\* _parse_cfg
ParseCfg ==
    /\ pc = "parse_cfg"
    /\ LET r == parse_cfg(model_data)
       IN  /\ self' = r.desc
           /\ IF r.err.kind # "none" THEN Fail(r.err)
              ELSE pc' = "check_data" /\ err' = err
    /\ UNCHANGED <<model_data, parent_repo, input_ver, reads, cwd, status>>

\* _check_data
CheckData ==
    /\ pc = "check_data"
    /\ LET r == check_data(self)
       IN  /\ self' = r.desc
           /\ IF r.err.kind # "none" THEN Fail(r.err)
              ELSE pc' = "check_optional" /\ err' = err
    /\ UNCHANGED <<model_data, parent_repo, input_ver, reads, cwd, status>>

\* _check_optional
CheckOptional ==
    /\ pc = "check_optional"
    /\ LET r == check_optional(self, parent_repo)
       IN  /\ self' = r.desc
           /\ reads' = reads + r.reads
           /\ IF r.err.kind # "none" THEN Fail(r.err)
              ELSE pc' = "validate" /\ err' = err
    /\ UNCHANGED <<model_data, parent_repo, input_ver, cwd, status>>

\* _validate
Validate ==
    /\ pc = "validate"
    /\ LET e == validate(self)
       IN  IF e.kind # "none" THEN Fail(e)
           ELSE pc' = "done" /\ err' = err
    /\ UNCHANGED <<model_data, parent_repo, input_ver, self, reads, cwd, status>>

\* the entries kept by the components and exclude lists of the dict format
DictFiltered(d) ==
    SelectSeq(d.entries,
              LAMBDA e : /\ (d.components # {} => e.name \in d.components)
                         /\ (d.exclude # {} => e.name \notin d.exclude))

\* the version ExternalsDescriptionDict supports, which is its input version
SchemaVersionDict == [major |-> 1, minor |-> 0, patch |-> 0]

\* a dict of entries, written by a caller
InitDictUser ==
    /\ pc = "init_dict"
    /\ input_ver = NoInput
    /\ self = << >>
    /\ err = NoError
    /\ reads = 0
    /\ cwd = WorkDir
    /\ status = NoStatusCall
    /\ parent_repo = NoParentRepo
    /\ model_data \in { DictData("user", <<Entry("a", t, r)>>, f[1], f[2]) :
                          t \in DictTops, r \in DictRepos,
                          f \in { <<{}, {}>>, <<{}, {"a"}>> } }

\* the entry map of a description that has been built
InitDictValidated ==
    /\ pc = "init_dict"
    /\ input_ver = NoInput
    /\ self = << >>
    /\ err = NoError
    /\ reads = 0
    /\ cwd = WorkDir
    /\ status = NoStatusCall
    /\ parent_repo = NoParentRepo
    /\ model_data \in { DictData("validated", d, {}, {}) : d \in ValidatedDescs }

InitDict == InitDictUser \/ InitDictValidated

\* ExternalsDescriptionDict.__init__ up to self.update(model_data)
DictInit ==
    /\ pc = "init_dict"
    /\ input_ver' = SchemaVersionDict
    /\ IF verify_schema_version(SchemaVersionDict, SchemaVersionDict) # "ok"
       THEN /\ Fail(Failure("DevError", "", "", NoFound))
            /\ UNCHANGED <<model_data, self>>
       ELSE /\ model_data' = [model_data EXCEPT !.entries = DictFiltered(model_data)]
            /\ self' = DictFiltered(model_data)
            /\ pc' = "check_data"
            /\ err' = err
    /\ UNCHANGED <<parent_repo, reads, cwd, status>>

Next ==
    \/ CreateExternalsDescription
    \/ ConfigV1Init
    \/ ParseCfg
    \/ CheckData
    \/ CheckOptional
    \/ Validate

Spec == Init /\ [][Next]_vars

-----------------------------------------------------------------------------
(* git_submodule_status *)

\* most lines in the output of the submodule status command
MaxLines == 3

\* lines of the output: a submodule without and with a tag, a line that
\* has no name after the hash, and an empty line
StatusLines ==
    { <<" ", "1", " ", "a">>,
      <<"-", "2", " ", "b", " ", "(", "t", ")">>,
      <<"+", "3">>,
      << >> }

\* the output of the command: its lines, each ended by a newline
RECURSIVE JoinLines(_)
JoinLines(ls) ==
    IF ls = << >> THEN << >>
    ELSE Head(ls) \o <<"\n">> \o JoinLines(Tail(ls))

StatusOutputs ==
    UNION { { JoinLines(ls) : ls \in [1..n -> StatusLines] } : n \in 0..MaxLines }

\* the record made of one non-empty line, or the IndexError of items[1]
SubmoduleRecord(submod) ==
    IF Len(StrSplit(Tail(submod), " ")) < 2
    THEN [ok |-> FALSE, name |-> << >>, hash |-> << >>, status |-> "",
          tag |-> << >>]
    ELSE [ok |-> TRUE,
          name |-> StrSplit(Tail(submod), " ")[2],
          hash |-> StrSplit(Tail(submod), " ")[1],
          status |-> Head(submod),
          tag |-> IF Len(StrSplit(Tail(submod), " ")) > 2
                  THEN StrSplit(Tail(submod), " ")[3] ELSE << >>]

\* submodules[items[1]] = {"hash": ..., "status": ..., "tag": ...}
AddSubmodule(submodules, r) ==
    IF \E i \in 1..Len(submodules) : submodules[i].name = r.name
    THEN [i \in 1..Len(submodules) |->
            IF submodules[i].name = r.name THEN r ELSE submodules[i]]
    ELSE Append(submodules, r)

\* a call of git_submodule_status(repo_dir), with what the command will do
InitStatus ==
    /\ pc = "status_enter"
    /\ model_data = Config(FALSE, NoVersion, << >>, {}, {})
    /\ parent_repo = NoParentRepo
    /\ input_ver = NoInput
    /\ self = << >>
    /\ err = NoError
    /\ reads = 0
    /\ cwd = WorkDir
    /\ status \in { [NoStatusCall EXCEPT !.repo_dir = d, !.fails = f,
                                         !.git_output = o] :
                      d \in {WorkDir, "/work/repo"}, f \in BOOLEAN,
                      o \in StatusOutputs }

\* cwd = os.getcwd(); os.chdir(repo_dir)
GitSubmoduleStatusEnter ==
    /\ pc = "status_enter"
    /\ status' = [status EXCEPT !.entry_cwd = cwd]
    /\ cwd' = status.repo_dir
    /\ pc' = "status_run"
    /\ UNCHANGED <<model_data, parent_repo, input_ver, self, err, reads>>

\* git_output = execute_subprocess(cmd, output_to_caller=True), which ends
\* in a failure when the command fails; submods = git_output.split("\n")
ExecuteSubprocess ==
    /\ pc = "status_run"
    /\ IF status.fails
       THEN Fail(Failure("SubprocessError", "", "", NoFound))
            /\ UNCHANGED status
       ELSE /\ status' = [status EXCEPT
                            !.submods = StrSplit(status.git_output, "\n")]
            /\ pc' = "status_parse"
            /\ err' = err
    /\ UNCHANGED <<model_data, parent_repo, input_ver, self, reads, cwd>>

\* one pass of the loop over the lines
ParseSubmoduleStatus ==
    /\ pc = "status_parse"
    /\ status.submods # << >>
    /\ IF Head(status.submods) = << >>
       THEN /\ status' = [status EXCEPT !.submods = Tail(status.submods)]
            /\ UNCHANGED <<pc, err>>
       ELSE IF ~SubmoduleRecord(Head(status.submods)).ok
       THEN Fail(Failure("IndexError", "", "", Head(status.submods)))
            /\ UNCHANGED status
       ELSE /\ status' = [status EXCEPT
                            !.submods = Tail(status.submods),
                            !.submodules =
                                AddSubmodule(status.submodules,
                                    SubmoduleRecord(Head(status.submods)))]
            /\ UNCHANGED <<pc, err>>
    /\ UNCHANGED <<model_data, parent_repo, input_ver, self, reads, cwd>>

\* os.chdir(cwd); return submodules
GitSubmoduleStatusReturn ==
    /\ pc = "status_parse"
    /\ status.submods = << >>
    /\ cwd' = status.entry_cwd
    /\ pc' = "status_done"
    /\ UNCHANGED <<model_data, parent_repo, input_ver, self, err, reads, status>>

NextStatus ==
    \/ GitSubmoduleStatusEnter
    \/ ExecuteSubprocess
    \/ ParseSubmoduleStatus
    \/ GitSubmoduleStatusReturn

SpecStatus == InitStatus /\ [][NextStatus]_vars

\* the construction from a dict (model_format "dict")
NextDict ==
    \/ DictInit
    \/ CheckData
    \/ CheckOptional
    \/ Validate

SpecDict == InitDict /\ [][NextDict]_vars

-----------------------------------------------------------------------------
(* Vocabulary of the properties *)

Protocol(e) == IF PROTOCOL \in DOMAIN e.repo THEN e.repo[PROTOCOL].s ELSE Absent

\* the reference fields given on an entry: the keys tag, branch and hash
\* that are present, and from_submodule when it is true
RefsGiven(e) ==
    {k \in {TAG, BRANCH, HASH} : k \in DOMAIN e.repo}
    \cup (IF SUBMODULE \in DOMAIN e.top /\ e.top[SUBMODULE] = Bool(TRUE)
          THEN {SUBMODULE} ELSE {})

\* position of the entry called name in desc, 0 if there is none
IndexOf(name, desc) ==
    IF \E i \in 1..Len(desc) : desc[i].name = name
    THEN CHOOSE i \in 1..Len(desc) : desc[i].name = name
    ELSE 0

\* the entry called name (only used when there is one)
EntryNamed(name, desc) == desc[IndexOf(name, desc)]

\* In a step of a validation phase: the loop got as far as entry i (no
\* earlier entry ended the phase), and the phase ended on entry i with a
\* failure of the given kind.
Reached(i) ==
    \/ pc' \notin {"failed"}
    \/ pc' = "failed" /\ IndexOf(err'.name, self) >= i
RejectedAs(i, kind) ==
    pc' = "failed" /\ err'.kind = kind /\ err'.name = self[i].name

\* an entry that gets to the reference count of Phase A: its protocol is
\* git or svn and none of the rules before the count rejects it
CountedEntry(e) ==
    /\ Protocol(e) \in {PROTOCOL_GIT, PROTOCOL_SVN}
    /\ ~(Protocol(e) = PROTOCOL_SVN /\ HASH \in DOMAIN e.repo)
    /\ ~(Protocol(e) # PROTOCOL_GIT /\ SUBMODULE \in DOMAIN e.top)

-----------------------------------------------------------------------------
(* Phase A: the reference count *)

\* C3: in _check_data, an entry with protocol git or svn that no earlier
\* rule rejects and that the loop reaches is rejected as over-specified
\* when more than one of tag, branch, hash, from_submodule==true is given,
\* as under-specified when none is given; when Phase A passes, every such
\* entry has exactly one of them.
C3_RefCountRule ==
    [][pc = "check_data" =>
        \A i \in 1..Len(self) :
            CountedEntry(self[i]) =>
                /\ (Reached(i) /\ Cardinality(RefsGiven(self[i])) > 1)
                      => RejectedAs(i, "OverSpecified")
                /\ (Reached(i) /\ Cardinality(RefsGiven(self[i])) < 1)
                      => RejectedAs(i, "UnderSpecified")
                /\ pc' = "check_optional"
                      => Cardinality(RefsGiven(self[i])) = 1]_vars

\* an entry with a tag and a branch has been rejected as over-specified
C3_Witness ==
    /\ pc = "failed"
    /\ err.kind = "OverSpecified"
    /\ err.detail = "refs"
    /\ RefsGiven(EntryNamed(err.name, self)) = {TAG, BRANCH}

\* the text that introduces a reference field in the "Found:" part of the
\* over-specified message, and the text of its value
FoundLabel(k) ==
    CASE k = TAG -> "\"tag = \""
      [] k = BRANCH -> "\"branch = "
      [] k = HASH -> "\"hash = "
      [] OTHER -> "\"from_submodule = "
FoundValue(e, k) == IF k = SUBMODULE THEN "True" ELSE e.repo[k].s

\* the field and its value are in the text found
Shown(found, e, k) ==
    \E i \in 1..(Len(found) - 1) :
        found[i] = FoundLabel(k) /\ found[i + 1] = FoundValue(e, k)

\* C4: when _check_data rejects an entry for its reference count being
\* more than one, the "Found:" part of the message shows every reference
\* field given on the entry with its value.
C4_FoundShowsEveryRef ==
    (pc = "failed" /\ err.kind = "OverSpecified"
        /\ err.detail \in {"refs", "from_submodule"})
    => \A k \in RefsGiven(EntryNamed(err.name, self)) :
          Shown(err.found, EntryNamed(err.name, self), k)

-----------------------------------------------------------------------------
(* Phase A: repo_url and local_path *)

UrlGiven(e) == REPO_URL \in DOMAIN e.repo
PathGiven(e) == PATH \in DOMAIN e.top
FromSubmodule(e) == SUBMODULE \in RefsGiven(e)

\* what holds of the entries of a description that passes Phase A
UrlPathConsistent(e) ==
    /\ UrlGiven(e) <=> ~FromSubmodule(e)
    /\ FromSubmodule(e) => ~PathGiven(e)

\* C5 as stated: for an entry with protocol git or svn, passing Phase A
\* means repo_url is present iff from_submodule is not true, and no
\* local_path with from_submodule true; from_submodule true with repo_url
\* or local_path is rejected as over-specified; no repo_url and no true
\* from_submodule is rejected as under-specified.
C5_AsStated ==
    [][pc = "check_data" =>
        \A i \in 1..Len(self) :
            Protocol(self[i]) \in {PROTOCOL_GIT, PROTOCOL_SVN} =>
                /\ pc' = "check_optional" => UrlPathConsistent(self[i])
                /\ (/\ Reached(i)
                    /\ FromSubmodule(self[i])
                    /\ (UrlGiven(self[i]) \/ PathGiven(self[i])))
                      => RejectedAs(i, "OverSpecified")
                /\ (/\ Reached(i)
                    /\ ~UrlGiven(self[i])
                    /\ ~FromSubmodule(self[i]))
                      => RejectedAs(i, "UnderSpecified")]_vars

\* C5, amended: the two rejections are as stated for an entry that no
\* earlier rule of Phase A rejects (unknown protocol, svn with hash,
\* from_submodule on a protocol other than git, more than one reference).
C5_UrlPathRule ==
    [][pc = "check_data" =>
        \A i \in 1..Len(self) :
            Protocol(self[i]) \in {PROTOCOL_GIT, PROTOCOL_SVN} =>
                /\ pc' = "check_optional" => UrlPathConsistent(self[i])
                /\ (/\ Reached(i)
                    /\ CountedEntry(self[i])
                    /\ FromSubmodule(self[i])
                    /\ (UrlGiven(self[i]) \/ PathGiven(self[i])))
                      => RejectedAs(i, "OverSpecified")
                /\ (/\ Reached(i)
                    /\ CountedEntry(self[i])
                    /\ Cardinality(RefsGiven(self[i])) <= 1
                    /\ ~UrlGiven(self[i])
                    /\ ~FromSubmodule(self[i]))
                      => RejectedAs(i, "UnderSpecified")]_vars

\* an entry with from_submodule true as its only reference and a
\* local_path has been rejected as over-specified
C5_Witness ==
    /\ pc = "failed"
    /\ err.kind = "OverSpecified"
    /\ RefsGiven(EntryNamed(err.name, self)) = {SUBMODULE}
    /\ PathGiven(EntryNamed(err.name, self))
    /\ ~UrlGiven(EntryNamed(err.name, self))

-----------------------------------------------------------------------------
(* Phase A: svn and hash *)

\* C6: an svn entry with a hash key that the loop of _check_data reaches
\* is rejected with the svn-hash error, whatever else it has (so before
\* any over- or under-specified error); and a description that validates
\* has no svn entry with a non-empty hash.
C6_SvnNeverHash ==
    [][/\ pc = "check_data" =>
            \A i \in 1..Len(self) :
                (/\ Reached(i)
                 /\ Protocol(self[i]) = PROTOCOL_SVN
                 /\ HASH \in DOMAIN self[i].repo)
                    => RejectedAs(i, "SvnHash")
       /\ pc' = "done" =>
            \A i \in 1..Len(self') :
                Protocol(self'[i]) = PROTOCOL_SVN
                    => self'[i].repo[HASH] = Str("")]_vars

\* an svn entry with a hash and a tag, and without repo_url, has been
\* rejected with the svn-hash error
C6_Witness ==
    /\ pc = "failed"
    /\ err.kind = "SvnHash"
    /\ {TAG, HASH} \subseteq RefsGiven(EntryNamed(err.name, self))
    /\ ~UrlGiven(EntryNamed(err.name, self))

-----------------------------------------------------------------------------
(* The schema version gate *)

\* the version the document declares, as get_cfg_schema_version reads it
Declared == get_cfg_schema_version([model_data EXCEPT !.has_version = TRUE])
HasDeclared == model_data.semver_str # NoVersion

VersionKinds == {"MissingVersion", "VersionFormat", "IndexError"}
GateKinds == {"UnsupportedMajor", "DevError", "IncompatibleSchema"}

\* the factory and the gate of the constructor have run
GateDone == pc \notin {"create", "init_v1"}
\* ... and let the document through
GatePassed ==
    GateDone /\ ~(pc = "failed" /\ err.kind \in VersionKinds \cup GateKinds)

\* C7: with supported version 1.1.0 a declared version is accepted iff
\* its major is 1 and its minor at most 1, whatever its patch: 1.0.0,
\* 1.1.0 and 1.1.5 are accepted, 1.2.0 is rejected as an incompatible
\* schema and a major other than 1 is rejected.
C7_SchemaGate ==
    (HasDeclared /\ Declared.kind = "ok" /\ GateDone) =>
        /\ GatePassed <=> (Declared.major = 1 /\ Declared.minor <= 1)
        /\ (Declared.major = 1 /\ Declared.minor > 1)
              => (pc = "failed" /\ err.kind = "IncompatibleSchema")
        /\ Declared.major # 1
              => (pc = "failed" /\ err.kind \in {"UnsupportedMajor", "DevError"})
        /\ model_data.semver_str \in { <<"1", ".", "0", ".", "0">>,
                                       <<"1", ".", "1", ".", "0">>,
                                       <<"1", ".", "1", ".", "5">> }
              => GatePassed
        /\ model_data.semver_str = <<"1", ".", "2", ".", "0">>
              => (pc = "failed" /\ err.kind = "IncompatibleSchema")

\* a document declaring 1.1.5 has been built
C7_Witness ==
    /\ pc = "done"
    /\ model_data.semver_str = <<"1", ".", "1", ".", "5">>
    /\ input_ver = [major |-> 1, minor |-> 1, patch |-> 5]

\* exactly three integer components once the "-" or "+" suffix is dropped
WellFormedVersion(s) ==
    /\ Len(StrSplit(ReSplitFirst(s), VERSION_SEPERATOR)) = 3
    /\ \A i \in 1..3 :
          IsIntLiteral(StrStrip(StrSplit(ReSplitFirst(s), VERSION_SEPERATOR)[i]))

\* C8: a version string that does not consist of exactly three integer
\* components (after the suffix is dropped) ends in the version-format
\* fatal error naming the string: it is never accepted and never ends in
\* another kind of failure.
C8_VersionFormat ==
    (HasDeclared /\ pc # "create" /\ ~WellFormedVersion(model_data.semver_str))
    => /\ pc = "failed"
       /\ err.kind = "VersionFormat"
       /\ err.found = ReSplitFirst(model_data.semver_str)

-----------------------------------------------------------------------------
(* The reference of a validated entry *)

\* the references an entry holds: tag, branch, hash with a non-empty
\* value, and from_submodule when true
RefsSet(e) ==
    {k \in {TAG, BRANCH, HASH} : k \in DOMAIN e.repo /\ e.repo[k].s # ""}
    \cup (IF SUBMODULE \in DOMAIN e.top /\ e.top[SUBMODULE] = Bool(TRUE)
          THEN {SUBMODULE} ELSE {})

\* C1: in a description whose construction succeeds, every entry whose
\* protocol is not externals_only has exactly one of: tag set, branch set,
\* hash set, from_submodule true.
C1_ExactlyOneReference ==
    pc = "done" =>
        \A i \in 1..Len(self) :
            Protocol(self[i]) # PROTOCOL_EXTERNALS_ONLY
                => Cardinality(RefsSet(self[i])) = 1

-----------------------------------------------------------------------------
(* Phase B: entries taken from the submodules of the parent *)

\* the parent's submodules manifest converts to a document
ManifestRead ==
    /\ ~parent_repo.none
    /\ parent_repo.has_submodules_file
    /\ read_gitmodules_file(parent_repo.gitmodules,
                            parent_repo.submods).err.kind = "none"

\* the description built from it
ManifestDesc ==
    create_externals_description(
        read_gitmodules_file(parent_repo.gitmodules, parent_repo.submods).doc,
        NoParentRepo).desc

\* C9: after a successful validation an entry with from_submodule true
\* (the parent being a git repository) has the repo_url, hash and
\* local_path of the entry of the same name in the description built from
\* the parent's submodules manifest.
C9_CopiedFromSubmodule ==
    pc = "done" =>
        \A i \in 1..Len(self) :
            (/\ self[i].top[SUBMODULE] = Bool(TRUE)
             /\ parent_repo.protocol = PROTOCOL_GIT
             /\ IndexOf(self[i].name, ManifestDesc) # 0)
            => /\ self[i].repo[REPO_URL]
                    = EntryNamed(self[i].name, ManifestDesc).repo[REPO_URL]
               /\ self[i].repo[HASH]
                    = EntryNamed(self[i].name, ManifestDesc).repo[HASH]
               /\ self[i].top[PATH]
                    = EntryNamed(self[i].name, ManifestDesc).top[PATH]

\* entry b, the second of the manifest, has been resolved to the url, hash
\* and path of submodule b
C9_Witness ==
    /\ pc = "done"
    /\ parent_repo.gitmodules = <<ManifestA, ManifestB>>
    /\ \E i \in 1..Len(self) :
          /\ self[i].name = "b"
          /\ self[i].top[SUBMODULE] = Bool(TRUE)
          /\ self[i].repo[REPO_URL] = Str("/abs/local")
          /\ self[i].repo[HASH] = Str("def456")
          /\ self[i].top[PATH] = Str("src/b")

\* C10: in _check_optional an entry with from_submodule true makes the
\* construction fail: with the no-parent error when there is no parent,
\* with the parent-protocol error when the parent is not git (in both
\* cases without the manifest having been read), and with the
\* submodule-not-found error when the parent is git and the description
\* built from its manifest has no entry of that name; the failure is on
\* that entry when the loop reaches it.
C10_SubmoduleFailures ==
    [][pc = "check_optional" =>
        \A i \in 1..Len(self) :
            (SUBMODULE \in DOMAIN self[i].top
                /\ self[i].top[SUBMODULE] = Bool(TRUE)) =>
                /\ parent_repo.none =>
                      /\ pc' = "failed" /\ err'.kind = "NoParent"
                      /\ Reached(i) => RejectedAs(i, "NoParent")
                      /\ reads' = 0
                /\ (~parent_repo.none /\ parent_repo.protocol # PROTOCOL_GIT) =>
                      /\ pc' = "failed" /\ err'.kind = "ParentProtocol"
                      /\ Reached(i) => RejectedAs(i, "ParentProtocol")
                      /\ reads' = 0
                /\ (/\ ~parent_repo.none
                    /\ parent_repo.protocol = PROTOCOL_GIT
                    /\ ManifestRead
                    /\ IndexOf(self[i].name, ManifestDesc) = 0) =>
                      /\ pc' = "failed" /\ err'.kind = "SubmoduleNotFound"
                      /\ Reached(i) => RejectedAs(i, "SubmoduleNotFound")]_vars

\* an entry with from_submodule true has not been found among the
\* submodules of a git parent, the manifest having been read once
C10_Witness ==
    /\ pc = "failed"
    /\ err.kind = "SubmoduleNotFound"
    /\ reads = 1
    /\ parent_repo.protocol = PROTOCOL_GIT
    /\ EntryNamed(err.name, self).top[SUBMODULE] = Bool(TRUE)

-----------------------------------------------------------------------------
(* Acceptance of a document *)

\* the sections that _parse_cfg turns into entries, and a section as the
\* dict of its keys
BuiltSections ==
    {i \in 1..Len(model_data.sections) :
        ~Filtered(Strip(model_data.sections[i].name),
                  model_data.components, model_data.exclude)}
RawDict(i) == list_to_dict(model_data.sections[i].items)

RawFromSubmodule(d) == SUBMODULE \in DOMAIN d /\ str_to_bool(d[SUBMODULE].s)

\* the references of a section that are set (non-empty), and those that
\* are given (the key is written)
RawRefsSet(d) ==
    {k \in {TAG, BRANCH, HASH} : k \in DOMAIN d /\ d[k].s # ""}
    \cup (IF RawFromSubmodule(d) THEN {SUBMODULE} ELSE {})
RawRefsGiven(d) ==
    {k \in {TAG, BRANCH, HASH} : k \in DOMAIN d}
    \cup (IF RawFromSubmodule(d) THEN {SUBMODULE} ELSE {})

\* the rules of the data model on one section, refs being its references
RulesHold(d, refs) ==
    /\ PROTOCOL \in DOMAIN d
    /\ d[PROTOCOL].s \in KNOWN_PRROTOCOLS
    /\ d[PROTOCOL].s = PROTOCOL_SVN => HASH \notin refs
    /\ SUBMODULE \in DOMAIN d => d[PROTOCOL].s = PROTOCOL_GIT
    /\ d[PROTOCOL].s # PROTOCOL_EXTERNALS_ONLY =>
          /\ Cardinality(refs) = 1
          /\ RawFromSubmodule(d)
                => (REPO_URL \notin DOMAIN d /\ PATH \notin DOMAIN d)
          /\ ~RawFromSubmodule(d) => REPO_URL \in DOMAIN d

\* a section with known keys only, well-formed booleans, required and a
\* local_path (its own, or the one from_submodule supplies), and, if it
\* has a from_submodule key, a git parent whose manifest names it
WellFormedSection(i) ==
    /\ DOMAIN RawDict(i) \subseteq (DOMAIN SourceSchemaTop) \cup SourceSchemaRepo
    /\ \A k \in {REQUIRED, SUBMODULE} \cap DOMAIN RawDict(i) :
          IsBoolStr(RawDict(i)[k].s)
    /\ REQUIRED \in DOMAIN RawDict(i)
    /\ PATH \in DOMAIN RawDict(i) \/ RawFromSubmodule(RawDict(i))
    /\ SUBMODULE \in DOMAIN RawDict(i) =>
          /\ parent_repo.protocol = PROTOCOL_GIT
          /\ ManifestRead
          /\ IndexOf(Strip(model_data.sections[i].name), ManifestDesc) # 0

Finished == pc \in {"done", "failed"} /\ GatePassed

\* C2: for a document of well-formed sections that passes the schema
\* gate, construction and the three phases succeed iff every entry
\* satisfies the exclusivity rule (exactly one of tag, branch, hash set or
\* from_submodule true) and the url and protocol rules.
C2_AcceptsIffRules ==
    (Finished /\ \A i \in BuiltSections : WellFormedSection(i)) =>
        (pc = "done" <=>
            \A i \in BuiltSections :
                RulesHold(RawDict(i), RawRefsSet(RawDict(i))))

\* The same with a reference counted as soon as its key is written,
\* which is how _check_data counts.
AcceptsIffRulesOnKeys ==
    (Finished /\ \A i \in BuiltSections : WellFormedSection(i)) =>
        (pc = "done" <=>
            \A i \in BuiltSections :
                RulesHold(RawDict(i), RawRefsGiven(RawDict(i))))

-----------------------------------------------------------------------------
(* Phase C: the shape of an entry *)

\* the entry has exactly the keys of the schema, each with a value of the
\* type of the schema
ExactShape(e) ==
    /\ DOMAIN e.top = DOMAIN SourceSchemaTop
    /\ DOMAIN e.repo = SourceSchemaRepo
    /\ \A k \in DOMAIN e.top : e.top[k].type = SourceSchemaTop[k]
    /\ \A k \in DOMAIN e.repo : e.repo[k].type = "str"

\* C11: _validate rejects with the schema-validation error every entry
\* with a missing key, an extra key (at top level or in repo) or a value
\* of the wrong type, so every entry of a description that is built has
\* exactly the keys required, local_path, externals, from_submodule and
\* repo, and repo exactly protocol, repo_url, tag, branch, hash, sparse.
C11_ExactSchemaKeys ==
    /\ pc = "done" => \A i \in 1..Len(self) : ExactShape(self[i])
    /\ (pc = "validate" /\ \E i \in 1..Len(self) : ~ExactShape(self[i]))
          => validate(self).kind = "NotValid"

\* the same for the keys of the schema only: missing keys and wrong types
\* are rejected, keys outside the schema are not looked at
SchemaKeysShape ==
    pc = "done" => \A i \in 1..Len(self) : validate_data_struct(self[i])

-----------------------------------------------------------------------------
(* The pipeline run again on the entry map of a built description *)

\* C12: the entry map of a built description, fed back through the
\* construction (model_format "dict") and the three phases, is accepted
\* and comes out equal to what went in: no entry is rejected and no field
\* value changes.
C12_Idempotent ==
    (model_data.origin = "validated" /\ pc \in {"done", "failed"})
    => (pc = "done" /\ self = model_data.entries)

\* the only built description that is accepted again is the empty one
RebuiltOnlyWhenEmpty ==
    (model_data.origin = "validated" /\ pc \in {"done", "failed"})
    => (pc = "done" <=> model_data.entries = << >>)

-----------------------------------------------------------------------------
(* The working directory across git_submodule_status *)

\* control has left git_submodule_status
StatusLeft == pc \in {"status_done", "failed"}

\* C13: whenever control leaves git_submodule_status, by a return or by a
\* failure of the command or of the parsing of its output, the working
\* directory is the one in effect when the function was entered.
C13_WorkingDirRestored == StatusLeft => cwd = WorkDir

\* on the return path the working directory is restored
RestoredOnReturn == pc = "status_done" => cwd = WorkDir

-----------------------------------------------------------------------------
(* The document made of the submodules manifest *)

\* the submodule sections of a manifest
SubmoduleSections(manifest) ==
    SelectSeq(manifest, LAMBDA sec : sec.prefix = "submodule")

\* the key under which the status record of a section is looked for: its
\* name (by_path FALSE), or its name and, failing that, its path
StatusKey(sec, submods, by_path) ==
    IF sec.name \in DOMAIN submods \/ ~by_path THEN sec.name
    ELSE SubmodulePath(sec.items).s

\* the section has a path, a url and a status record
CompleteSubmodule(sec, submods, by_path) ==
    /\ SubmodulePath(sec.items).given
    /\ SubmoduleUrl(sec.items).given
    /\ StatusKey(sec, submods, by_path) \in DOMAIN submods

\* the section synthesized for a complete submodule section
SynthesizedFor(sec, submods, by_path) ==
    Section(sec.name,
            << <<PATH, SubmodulePath(sec.items).s>>, <<PROTOCOL, "git">>,
               <<REPO_URL, SubmoduleUrl(sec.items).s>>, <<REQUIRED, "True">>,
               <<HASH, submods[StatusKey(sec, submods, by_path)].hash>> >>)

\* the first section that is not complete (only used when there is one)
FirstIncomplete(subs, submods, by_path) ==
    subs[Min({i \in 1..Len(subs) :
                ~CompleteSubmodule(subs[i], submods, by_path)})]

\* what the failure names: the section, or (named_by_path) the path that
\* was looked for when it is the status record that is missing
NamedBy(sec, named_by_path) ==
    IF /\ named_by_path
       /\ SubmodulePath(sec.items).given
       /\ SubmoduleUrl(sec.items).given
    THEN SubmodulePath(sec.items).s
    ELSE sec.name

\* the outcome r of reading the manifest, against its submodule sections
ManifestOutcome(subs, submods, r, by_path) ==
    /\ r.err.kind = "none"
          <=> \A i \in 1..Len(subs) : CompleteSubmodule(subs[i], submods, by_path)
    /\ r.err.kind # "none" =>
          /\ r.err.kind \in {"MissingPath", "MissingUrl", "NoStatus"}
          /\ r.err.name = NamedBy(FirstIncomplete(subs, submods, by_path), by_path)
          /\ pc = "failed" /\ err = r.err
    /\ r.err.kind = "none" =>
          /\ r.doc.has_version /\ r.doc.semver_str = <<"1", ".", "0", ".", "0">>
          /\ r.doc.sections =
                [i \in 1..Len(subs) |-> SynthesizedFor(subs[i], submods, by_path)]

\* C14: read_gitmodules_file fails, naming the section, for a submodule
\* section without path, without url or whose name has no status record;
\* it returns a document only when every submodule section has a path, a
\* url and a status record under its name, and then every synthesized
\* section has local_path, protocol git, repo_url, required True and the
\* hash of that record, with schema version 1.0.0.
C14_ManifestByName ==
    reads = 1 =>
        ManifestOutcome(SubmoduleSections(parent_repo.gitmodules),
                        parent_repo.submods,
                        read_gitmodules_file(parent_repo.gitmodules,
                                             parent_repo.submods),
                        FALSE)

\* The same with the status record looked for under the name and then
\* under the path, the failure for a missing record naming the path.
ManifestByNameThenPath ==
    reads = 1 =>
        ManifestOutcome(SubmoduleSections(parent_repo.gitmodules),
                        parent_repo.submods,
                        read_gitmodules_file(parent_repo.gitmodules,
                                             parent_repo.submods),
                        TRUE)

-----------------------------------------------------------------------------
(* Keys that are not known *)

\* the keys of a section of a canonical document that are fields of an
\* entry or of its repo
KnownKeys == {REQUIRED, PATH, EXTERNALS, SUBMODULE} \cup SourceSchemaRepo

UnknownKeysOf(i) == (DOMAIN RawDict(i)) \ KnownKeys

\* _parse_cfg has run
ParseDone == GatePassed /\ pc # "parse_cfg"

\* the section that _parse_cfg stopped on, by the name in the failure
FailedSection ==
    CHOOSE i \in BuiltSections : Strip(model_data.sections[i].name) = err.name

\* the keys of the submodule sections of the parent's manifest other than
\* path, url and branch
ManifestUnknownKeys ==
    UNION { { Strip(parent_repo.gitmodules[i].items[j][1]) :
                j \in 1..Len(parent_repo.gitmodules[i].items) } :
            i \in {n \in 1..Len(parent_repo.gitmodules) :
                      parent_repo.gitmodules[n].prefix = "submodule"} }
    \ {"path", "url", "branch"}

\* C15: a key of a non-filtered section that is no field of an entry and
\* no field of its repo ends _parse_cfg in the unknown-item error naming
\* the section and the key, and a manifest with a key other than path, url
\* and branch is not accepted.
C15_UnknownKeysFatal ==
    /\ (ParseDone /\ \E i \in BuiltSections : UnknownKeysOf(i) # {})
          => /\ pc = "failed"
             /\ err.kind \in {"UnknownItem", "ValueError"}
             /\ err.kind = "UnknownItem"
                   => err.detail \in UnknownKeysOf(FailedSection)
    /\ (reads = 1 /\ ManifestUnknownKeys # {})
          => read_gitmodules_file(parent_repo.gitmodules,
                                  parent_repo.submods).err.kind # "none"

\* The same for the canonical document when the key repo is counted among
\* the known keys.
UnknownKeysButRepoFatal ==
    (ParseDone /\ \E i \in BuiltSections : UnknownKeysOf(i) \ {REPO} # {})
        => /\ pc = "failed"
           /\ err.kind \in {"UnknownItem", "ValueError"}
           /\ err.kind = "UnknownItem"
                 => err.detail \in UnknownKeysOf(FailedSection) \ {REPO}

-----------------------------------------------------------------------------
(* Phase B: how often the manifest is read *)

\* the entry declares from_submodule: the key is in the entry
DeclaresSubmodule(e) == SUBMODULE \in DOMAIN e.top

\* the entry has the url, hash and path of the entry ext
ResolvedFrom(e, ext) ==
    /\ e.repo[REPO_URL] = ext.repo[REPO_URL]
    /\ e.repo[HASH] = ext.repo[HASH]
    /\ e.top[PATH] = ext.top[PATH]

\* C16: in one pass of _check_optional the parent's manifest is read at
\* most once, however many entries declare from_submodule, and not at all
\* when none does; when the pass succeeds every entry that declares it
\* has been resolved from the one description built from the manifest.
C16_ManifestReadOnce ==
    [][pc = "check_optional" =>
        /\ reads = 0
        /\ reads' <= 1
        /\ (\A i \in 1..Len(self) : ~DeclaresSubmodule(self[i])) => reads' = 0
        /\ pc' = "validate" =>
              \A i \in 1..Len(self) :
                  DeclaresSubmodule(self[i]) =>
                      /\ reads' = 1
                      /\ IndexOf(self[i].name, ManifestDesc) # 0
                      /\ ResolvedFrom(self'[i],
                                      EntryNamed(self[i].name, ManifestDesc))]_vars

\* two entries with from_submodule true have been resolved with one read
\* of the manifest
C16_Witness ==
    /\ pc = "done"
    /\ reads = 1
    /\ Len(self) = 2
    /\ \A i \in 1..Len(self) : self[i].top[SUBMODULE] = Bool(TRUE)

-----------------------------------------------------------------------------
(* Phase B: from_submodule written as false *)

\* a section with protocol git, its own repo_url and local_path, one of
\* tag, branch and hash, and from_submodule written as false
ExplicitFalse(d) ==
    /\ DOMAIN d \subseteq KnownKeys
    /\ {PROTOCOL, REPO_URL, PATH, SUBMODULE, REQUIRED} \subseteq DOMAIN d
    /\ d[PROTOCOL].s = PROTOCOL_GIT
    /\ IsBoolStr(d[SUBMODULE].s) /\ ~str_to_bool(d[SUBMODULE].s)
    /\ IsBoolStr(d[REQUIRED].s)
    /\ Cardinality({TAG, BRANCH, HASH} \cap DOMAIN d) = 1

\* the value the section gives for a repo key, the default if it gives none
RawValue(d, k) == IF k \in DOMAIN d THEN d[k].s ELSE EMPTY_STR

\* C17: an entry with from_submodule written as false is treated as one
\* that leaves it out: it needs no parent and no manifest (a document of
\* such a section only is built, without a read of the manifest), and its
\* repo_url, hash and local_path are the ones written.
C17_ExplicitFalseAsAbsent ==
    (/\ Len(model_data.sections) = 1
     /\ BuiltSections = {1}
     /\ ExplicitFalse(RawDict(1))
     /\ Finished)
    => /\ pc = "done"
       /\ reads = 0
       /\ self[1].repo[REPO_URL].s
             = expand_local_url(RawDict(1)[REPO_URL].s, self[1].name)
       /\ self[1].repo[HASH].s = RawValue(RawDict(1), HASH)
       /\ self[1].top[PATH].s = RawDict(1)[PATH].s

====
